---- MODULE Spec2Model ----
(***************************************************************************)
(* Model of the review-classification drivers: src/test.py (prompt driver  *)
(* with CSV batch mode) and src/main.py (interactive driver with file      *)
(* ingestion), plus the scoring aggregator described in spec.md sections   *)
(* 4.1 and 4.2.  Python strings are modelled as sequences of one-character *)
(* strings so that strip, lower, split and substring search are computed.  *)
(***************************************************************************)
EXTENDS Integers, Sequences, FiniteSets, TLC

VARIABLES
  pc,            \* control position of the running program
  output_text,   \* test.py: text handed to _parse_model_output
  lines,         \* test.py:76  the stripped non-blank lines
  ln_idx,        \* test.py:79  number of lines the for loop has consumed
  decision,      \* test.py:77  parser local / last evaluate() result
  violation,     \* test.py:77
  explanation,   \* test.py:77
  path_exists,   \* test.py:106 whether os.path.isfile(path) holds
  in_file,       \* the input CSV: header names and data rows
  loc_col,       \* test.py:117/123
  rev_col,       \* test.py:117/124
  prompted,      \* whether the two column prompts were shown
  out_file,      \* the output CSV: NoOutput until created, then headers and rows
  row_idx,       \* test.py:143
  row,           \* test.py:144 the row dict being processed
  calls,         \* invocations of the generation service made by the
                 \* current loop iteration or process_csv run, in order
  turn,          \* iterations of an interactive loop started so far
  mode,          \* main.py:90, test.py:177
  quit_seen,     \* whether quit was chosen at a mode prompt
  user_input,    \* main.py:88
  file_name,     \* main.py:103
  read_log,      \* main.py:75-81 readers called by the current iteration
  error,         \* the uncaught exception, if the program died of one
  score_rows,    \* scoring tool: the rows of the scored CSV
  score_idx,     \* scoring tool: rows processed so far
  acc,           \* scoring tool: match counters and mismatch list
  stats,         \* scoring tool: total and the two accuracies, once computed
  report         \* scoring tool: the mismatch report file

parse_vars == <<output_text, lines, ln_idx, decision, violation, explanation>>
csv_vars ==
  <<path_exists, in_file, loc_col, rev_col, prompted, out_file, row_idx, row, calls>>
loop_vars == <<turn, mode, quit_seen, user_input, file_name, read_log, error>>
score_vars == <<score_rows, score_idx, acc, stats, report>>
vars == <<pc, parse_vars, csv_vars, loop_vars, score_vars>>

-----------------------------------------------------------------------------
(* Bounds of the model *)

\* lines in a model output handed to the parser
MaxLines == 3
\* data rows in an input CSV
MaxRows == 2
\* rows of a table read by main.py
MaxDfRows == 2
\* iterations of an interactive loop
MaxTurns == 2
\* rows of a scored CSV
MaxScoreRows == 2

-----------------------------------------------------------------------------
(* Python string primitives on character sequences *)

LowerChar(c) ==
  CASE c = "A" -> "a" [] c = "B" -> "b" [] c = "C" -> "c" [] c = "D" -> "d"
    [] c = "E" -> "e" [] c = "F" -> "f" [] c = "G" -> "g" [] c = "H" -> "h"
    [] c = "I" -> "i" [] c = "J" -> "j" [] c = "K" -> "k" [] c = "L" -> "l"
    [] c = "M" -> "m" [] c = "N" -> "n" [] c = "O" -> "o" [] c = "P" -> "p"
    [] c = "Q" -> "q" [] c = "R" -> "r" [] c = "S" -> "s" [] c = "T" -> "t"
    [] c = "U" -> "u" [] c = "V" -> "v" [] c = "W" -> "w" [] c = "X" -> "x"
    [] c = "Y" -> "y" [] c = "Z" -> "z" [] OTHER -> c

\* str.lower()
str_lower(s) == [k \in 1..Len(s) |-> LowerChar(s[k])]

Whitespace == {" ", "\t", "\n", "\r"}

\* str.strip()
str_strip(s) ==
  LET keep == {k \in 1..Len(s) : s[k] \notin Whitespace}
  IN  IF keep = {} THEN <<>>
      ELSE LET lo == CHOOSE k \in keep : \A m \in keep : k <= m
               hi == CHOOSE k \in keep : \A m \in keep : k >= m
           IN  SubSeq(s, lo, hi)

\* the Python test  t in s
str_contains(s, t) ==
  \E k \in 0..(Len(s) - Len(t)) : SubSeq(s, k + 1, k + Len(t)) = t

\* s.split(c, 1): one part when c does not occur, otherwise two
str_split1(s, c) ==
  LET hits == {k \in 1..Len(s) : s[k] = c}
  IN  IF hits = {} THEN <<s>>
      ELSE LET k == CHOOSE h \in hits : \A m \in hits : h <= m
           IN  <<SubSeq(s, 1, k - 1), SubSeq(s, k + 1, Len(s))>>

\* s.split(c): every part between occurrences of c
RECURSIVE str_split(_, _)
str_split(s, c) ==
  LET parts == str_split1(s, c)
  IN  IF Len(parts) = 1 THEN parts
      ELSE <<parts[1]>> \o str_split(parts[2], c)

LineBreaks == {"\n", "\r"}

\* str.splitlines(): cut at line boundaries, no empty last line
RECURSIVE str_splitlines(_)
str_splitlines(s) ==
  LET hits == {k \in 1..Len(s) : s[k] \in LineBreaks}
  IN  IF s = <<>> THEN <<>>
      ELSE IF hits = {} THEN <<s>>
      ELSE LET k == CHOOSE h \in hits : \A m \in hits : h <= m
               crlf == k < Len(s) /\ s[k] = "\r" /\ s[k + 1] = "\n"
               rest == SubSeq(s, IF crlf THEN k + 2 ELSE k + 1, Len(s))
           IN  <<SubSeq(s, 1, k - 1)>> \o str_splitlines(rest)

-----------------------------------------------------------------------------
(* test.py: _parse_model_output *)

TokDecision    == <<"d", "e", "c", "i", "s", "i", "o", "n", ":">>
TokViolation   == <<"p", "r", "i", "m", "a", "r", "y", " ", "v", "i", "o", "l", "a", "t", "i", "o", "n">>
TokExplanation == <<"e", "x", "p", "l", "a", "n", "a", "t", "i", "o", "n", ":">>

\* test.py:76  lines = [l.strip() for l in output_text.splitlines() if l.strip()]
RECURSIVE NonBlankStripped(_)
NonBlankStripped(ls) ==
  IF ls = <<>> THEN <<>>
  ELSE (IF str_strip(Head(ls)) = <<>> THEN <<>> ELSE <<str_strip(Head(ls))>>)
       \o NonBlankStripped(Tail(ls))

parse_lines(text) == NonBlankStripped(str_splitlines(text))

\* ln.split(":", 1)[1].strip(); the subscript fails (IndexError) when the
\* line holds no colon
FieldValue(ln) ==
  LET parts == str_split1(ln, ":")
  IN  IF Len(parts) < 2 THEN [raised |-> TRUE, value |-> <<>>]
      ELSE [raised |-> FALSE, value |-> str_strip(parts[2])]

\* scan_line without the "and not <field>" guards: a later matching line
\* overwrites a field that is already set
scan_line_overwrite(st, ln) ==
  LET low == str_lower(ln)
      fv  == FieldValue(ln)
  IN  IF str_contains(low, TokDecision)
        THEN IF fv.raised THEN [st EXCEPT !.raised = TRUE]
             ELSE [st EXCEPT !.decision = fv.value]
      ELSE IF str_contains(low, TokViolation)
        THEN IF fv.raised THEN [st EXCEPT !.raised = TRUE]
             ELSE [st EXCEPT !.violation = fv.value]
      ELSE IF str_contains(low, TokExplanation)
        THEN IF fv.raised THEN [st EXCEPT !.raised = TRUE]
             ELSE [st EXCEPT !.explanation = fv.value]
      ELSE st

\* test.py:79-86  one iteration of the for loop on the parser's locals
scan_line(st, ln) ==
  LET low == str_lower(ln)
      fv  == FieldValue(ln)
  IN  IF str_contains(low, TokDecision) /\ st.decision = <<>>
        THEN IF fv.raised THEN [st EXCEPT !.raised = TRUE]
             ELSE [st EXCEPT !.decision = fv.value]
      ELSE IF str_contains(low, TokViolation) /\ st.violation = <<>>
        THEN IF fv.raised THEN [st EXCEPT !.raised = TRUE]
             ELSE [st EXCEPT !.violation = fv.value]
      ELSE IF str_contains(low, TokExplanation) /\ st.explanation = <<>>
        THEN IF fv.raised THEN [st EXCEPT !.raised = TRUE]
             ELSE [st EXCEPT !.explanation = fv.value]
      ELSE st

\* test.py:77
ParseStart ==
  [decision |-> <<>>, violation |-> <<>>, explanation |-> <<>>, raised |-> FALSE]

RECURSIVE scan_from(_, _, _)
scan_from(st, ls, k) ==
  IF st.raised \/ k > Len(ls) THEN st
  ELSE scan_from(scan_line(st, ls[k]), ls, k + 1)

\* test.py:70-88  the whole function: the triple, or raised
parse_model_output(text) == scan_from(ParseStart, parse_lines(text), 1)

-----------------------------------------------------------------------------
(* Model outputs the external generation service may return *)

LnDecisionValid == <<"D", "e", "c", "i", "s", "i", "o", "n", ":", " ", "V", "a", "l", "i", "d">>
LnViolationAds  == <<"P", "r", "i", "m", "a", "r", "y", " ", "V", "i", "o", "l", "a", "t", "i", "o", "n", ":", " ", "A", "d", "s">>
LnExplanation   == <<"E", "x", "p", "l", "a", "n", "a", "t", "i", "o", "n", ":", " ", "o", "k">>
LnViolationBare == <<"p", "r", "i", "m", "a", "r", "y", " ", "v", "i", "o", "l", "a", "t", "i", "o", "n", " ", "n", "o", "n", "e">>
LnDecisionEmpty == <<"D", "E", "C", "I", "S", "I", "O", "N", ":">>
LnDecisionViol  == <<"D", "e", "c", "i", "s", "i", "o", "n", ":", " ", "p", "r", "i", "m", "a", "r", "y", " ", "v", "i", "o", "l", "a", "t", "i", "o", "n">>
LnExplDecision  == <<" ", "e", "x", "p", "l", "a", "n", "a", "t", "i", "o", "n", ":", " ", "d", "e", "c", "i", "s", "i", "o", "n", ":", "x", " ">>
LnBlank         == <<" ", " ">>
LnJunk          == <<"j", "u", "n", "k">>

LinePool ==
  <<LnDecisionValid, LnViolationAds, LnExplanation, LnViolationBare,
    LnDecisionEmpty, LnDecisionViol, LnExplDecision, LnBlank, LnJunk>>

RECURSIVE JoinLines(_)
JoinLines(ls) ==
  IF ls = <<>> THEN <<>>
  ELSE IF Len(ls) = 1 THEN ls[1]
  ELSE ls[1] \o <<"\n">> \o JoinLines(Tail(ls))

TextPool ==
  {JoinLines([k \in DOMAIN f |-> LinePool[f[k]]]) :
     f \in UNION {[1..n -> 1..Len(LinePool)] : n \in 0..MaxLines}}

-----------------------------------------------------------------------------
(* test.py: column detection and the csv module's row handling *)

\* s.replace(c, "")
str_remove(s, c) == SelectSeq(s, LAMBDA x : x # c)

\* test.py:48-49
normalize(name) == str_remove(str_remove(str_lower(str_strip(name)), " "), "_")

\* Python's None; no string is a sequence holding a longer-than-one element
NoneVal == <<"None">>

\* test.py:59-61
loc_candidates ==
  << <<"l", "o", "c", "a", "t", "i", "o", "n">>,
     <<"p", "l", "a", "c", "e">>,
     <<"v", "e", "n", "u", "e">>,
     <<"r", "e", "s", "t", "a", "u", "r", "a", "n", "t">>,
     <<"s", "t", "o", "r", "e">>,
     <<"h", "o", "t", "e", "l">>,
     <<"s", "i", "t", "e">>,
     <<"s", "p", "o", "t">> >>

\* test.py:62-64
rev_candidates ==
  << <<"r", "e", "v", "i", "e", "w">>,
     <<"t", "e", "x", "t">>,
     <<"c", "o", "m", "m", "e", "n", "t">>,
     <<"f", "e", "e", "d", "b", "a", "c", "k">>,
     <<"c", "o", "n", "t", "e", "n", "t">>,
     <<"b", "o", "d", "y">>,
     <<"r", "a", "t", "i", "n", "g", "t", "e", "x", "t">> >>

\* test.py:56  norm_map[n]: the last header whose normal form is n
norm_map_has(headers, n) == \E k \in 1..Len(headers) : normalize(headers[k]) = n
norm_map_get(headers, n) ==
  LET hits == {k \in 1..Len(headers) : normalize(headers[k]) = n}
  IN  headers[CHOOSE k \in hits : \A m \in hits : k >= m]

\* first_found yielding the normalized candidate instead of the header
first_found_normalized(headers, candidates) ==
  LET hits == {k \in 1..Len(candidates) : norm_map_has(headers, candidates[k])}
  IN  IF hits = {} THEN NoneVal
      ELSE candidates[CHOOSE k \in hits : \A m \in hits : k <= m]

\* test.py:66-67  next((norm_map[n] for n in candidates if n in norm_map), None)
first_found(headers, candidates) ==
  LET hits == {k \in 1..Len(candidates) : norm_map_has(headers, candidates[k])}
  IN  IF hits = {} THEN NoneVal
      ELSE norm_map_get(headers, candidates[CHOOSE k \in hits : \A m \in hits : k <= m])

\* test.py:51-68
guess_columns(headers) ==
  [loc |-> first_found(headers, loc_candidates),
   rev |-> first_found(headers, rev_candidates)]

\* Python truthiness of an Optional[str]
truthy(v) == v # NoneVal /\ v # <<>>

\* the expression  v or ""
or_empty(v) == IF truthy(v) THEN v ELSE <<>>

SeqToSet(s) == {s[k] : k \in 1..Len(s)}

\* csv.DictReader.__next__: dict(zip(fieldnames, row)), the surplus fields
\* under the key None, the missing ones set to None
dict_reader_row(headers, fields) ==
  LET last(h) == CHOOSE k \in 1..Len(headers) :
                   /\ headers[k] = h
                   /\ \A m \in 1..Len(headers) : headers[m] = h => m <= k
      keys == SeqToSet(headers)
                \cup (IF Len(fields) > Len(headers) THEN {NoneVal} ELSE {})
  IN  [h \in keys |->
         IF h = NoneVal THEN SubSeq(fields, Len(headers) + 1, Len(fields))
         ELSE IF last(h) <= Len(fields) THEN fields[last(h)]
         ELSE NoneVal]

\* row.get(key)
dict_get(rowdict, key) == IF key \in DOMAIN rowdict THEN rowdict[key] ELSE NoneVal

\* row[key] = value
dict_set(rowdict, key, value) ==
  [k \in (DOMAIN rowdict) \cup {key} |-> IF k = key THEN value ELSE rowdict[k]]

ColDecision    == <<"D", "e", "c", "i", "s", "i", "o", "n">>
ColViolation   == <<"P", "r", "i", "m", "a", "r", "y", " ", "V", "i", "o", "l", "a", "t", "i", "o", "n">>
ColExplanation == <<"E", "x", "p", "l", "a", "n", "a", "t", "i", "o", "n">>

\* test.py:133
out_headers_of(headers) == headers \o <<ColDecision, ColViolation, ColExplanation>>

\* test.py:151-153 and 160-162
with_result(rowdict, d, v, e) ==
  dict_set(dict_set(dict_set(rowdict, ColDecision, d), ColViolation, v), ColExplanation, e)

\* csv.DictWriter.writerow: ValueError on a key outside fieldnames,
\* otherwise one cell per fieldname, None written as the empty string
writerow(fieldnames, rowdict) ==
  IF ~((DOMAIN rowdict) \subseteq SeqToSet(fieldnames))
    THEN [raised |-> TRUE, cells |-> <<>>]
    ELSE [raised |-> FALSE,
          cells |-> [k \in 1..Len(fieldnames) |->
                       IF fieldnames[k] \in DOMAIN rowdict
                         THEN or_empty(rowdict[fieldnames[k]])
                         ELSE <<>>]]

-----------------------------------------------------------------------------
(* Input files and operator entries the CSV driver is run on *)

HdLocation   == <<" ", "L", "o", "c", "a", "t", "i", "o", "n">>
HdPlace      == <<"P", "l", "a", "c", "e">>
HdRatingText == <<"R", "a", "t", "i", "n", "g", "_", "T", "e", "x", "t">>
HdId         == <<"i", "d">>
HdReview     == <<"R", "e", "v", "i", "e", "w">>
HdLowReview  == <<"r", "e", "v", "i", "e", "w">>

HeaderLists ==
  { <<HdLocation, HdLowReview>>,
    <<HdPlace, HdRatingText, ColDecision>>,
    <<HdId, HdLowReview>>,
    <<HdLowReview, HdLocation, HdReview>>,
    <<>> }

FieldText  == <<"g">>
FieldBlank == <<" ">>

AllText(n) == [k \in 1..n |-> FieldText]

\* data rows for a header list of n names: full rows with at most one blank
\* field, one row a field short, and a full and a blank row a field long
RowPool(n) ==
  IF n = 0 THEN {}
  ELSE {AllText(n), AllText(n - 1), AllText(n + 1), [k \in 1..(n + 1) |-> FieldBlank]}
         \cup {[AllText(n) EXCEPT ![k] = FieldBlank] : k \in 1..n}

NoFile == [headers |-> <<>>, rows |-> <<>>]

\* the output file before it is created
NoOutput == [opened |-> FALSE, headers |-> <<>>, rows |-> <<>>]

FilePool ==
  UNION {{[headers |-> h, rows |-> r] :
            r \in UNION {[1..n -> RowPool(Len(h))] : n \in 0..MaxRows}} :
         h \in HeaderLists}

\* what the operator may type at the two column prompts
EntryPool ==
  { <<"i", "d">>,
    <<" ", "r", "e", "v", "i", "e", "w", " ">>,
    <<"n", "o", "p", "e">> }

RespValidAds   == JoinLines(<<LnDecisionValid, LnViolationAds, LnExplanation>>)
RespFlaggedAds ==
  JoinLines(<<<<"D", "e", "c", "i", "s", "i", "o", "n", ":", " ", "F", "l", "a", "g", "g", "e", "d">>,
              LnViolationAds>>)
RespNoColon    == JoinLines(<<LnJunk, LnViolationBare>>)

ResponsePool == {RespValidAds, RespFlaggedAds, RespNoColon}
-----------------------------------------------------------------------------
(* main.py: read_file and clean_dataframe *)

ExtCsv  == <<"c", "s", "v">>
ExtXls  == <<"x", "l", "s">>
ExtXlsx == <<"x", "l", "s", "x">>
ExtXlsm == <<"x", "l", "s", "m">>
ExtXlsb == <<"x", "l", "s", "b">>
ExtOds  == <<"o", "d", "s">>
ExtJson == <<"j", "s", "o", "n">>
ExtXml  == <<"x", "m", "l">>

\* main.py:83  the text before the format in the ValueError message
MsgUnsupported ==
  <<"U", "n", "s", "u", "p", "p", "o", "r", "t", "e", "d", " ", "f", "i", "l", "e",
    " ", "f", "o", "r", "m", "a", "t", ":", " ">>

\* file_format without .lower()
file_format_cased(name) ==
  LET parts == str_split(name, ".")
  IN  parts[Len(parts)]

\* main.py:72  file_name.split(".")[-1].lower()
file_format(name) ==
  LET parts == str_split(name, ".")
  IN  str_lower(parts[Len(parts)])

\* main.py:71-85  the reader the name is dispatched to, or the ValueError
read_file(name) ==
  LET ff == file_format(name)
  IN  IF ff = ExtCsv
        THEN [raised |-> FALSE, reader |-> "read_csv", msg |-> <<>>]
      ELSE IF ff \in {ExtXls, ExtXlsx, ExtXlsm, ExtXlsb, ExtOds}
        THEN [raised |-> FALSE, reader |-> "read_excel", msg |-> <<>>]
      ELSE IF ff = ExtJson
        THEN [raised |-> FALSE, reader |-> "read_json", msg |-> <<>>]
      ELSE IF ff = ExtXml
        THEN [raised |-> FALSE, reader |-> "read_xml", msg |-> <<>>]
      ELSE [raised |-> TRUE, reader |-> "none", msg |-> MsgUnsupported \o ff]

\* a missing cell of a DataFrame
NaN == <<"NaN">>

RatingNum(n) == [kind |-> "num", val |-> n]
RatingStr    == [kind |-> "str", val |-> 0]
RatingNaN    == [kind |-> "nan", val |-> 0]

\* main.py:60  df.drop_duplicates(): the first of equal rows is kept
RECURSIVE drop_duplicates(_)
drop_duplicates(df) ==
  IF df = <<>> THEN <<>>
  ELSE LET init == drop_duplicates(SubSeq(df, 1, Len(df) - 1))
           last == df[Len(df)]
       IN  IF \E k \in 1..Len(init) : init[k] = last THEN init
           ELSE Append(init, last)

\* main.py:61  df.dropna()
dropna(df) ==
  SelectSeq(df, LAMBDA r : r.text # NaN /\ r.rating.kind # "nan")

\* main.py:62  pd.to_numeric(errors='coerce')
to_numeric(rating) == IF rating.kind = "str" THEN RatingNaN ELSE rating

RatingLow  == 0
RatingHigh == 5

\* main.py:63  clip(lower=0, upper=5)
clip(rating) ==
  IF rating.kind # "num" THEN rating
  ELSE IF rating.val < RatingLow THEN RatingNum(RatingLow)
  ELSE IF rating.val > RatingHigh THEN RatingNum(RatingHigh)
  ELSE rating

\* main.py:59-69
clean_dataframe(df) ==
  LET d1 == dropna(drop_duplicates(df))
      d2 == [k \in 1..Len(d1) |-> [d1[k] EXCEPT !.rating = clip(to_numeric(@))]]
      d3 == SelectSeq(d2, LAMBDA r : r.rating.kind # "nan")
  IN  SelectSeq(d3, LAMBDA r : str_strip(r.text) # <<>>)

HeadRows == 5

\* main.py:111  clean_df['text'].head(5)
head_text(df) ==
  [k \in 1..(IF Len(df) < HeadRows THEN Len(df) ELSE HeadRows) |-> df[k].text]

-----------------------------------------------------------------------------
(* Console entries and file contents the interactive drivers are run on *)

StrQuit       == <<"q", "u", "i", "t">>
StrIndividual == <<"i", "n", "d", "i", "v", "i", "d", "u", "a", "l">>
StrFile       == <<"f", "i", "l", "e">>

\* what the operator may type at main.py's mode prompt
MainModeEntries ==
  { <<" ", "Q", "U", "I", "T", " ">>,
    <<"I", "n", "d", "i", "v", "i", "d", "u", "a", "l">>,
    <<" ", "f", "i", "l", "e">>,
    <<"h", "e", "l", "p">> }

\* what the operator may type at main.py's review prompt
MainReviewEntries == { <<" ", "Q", "u", "i", "t">>, <<"g">>, <<>> }

\* what the operator may type at main.py's file-name prompt
MainNameEntries ==
  { <<" ", "Q", "u", "i", "t">>,
    <<"d", ".", "c", "s", "v">>,
    <<"d", ".", "C", "S", "V">>,
    <<"a", ".", "b", ".", "X", "l", "s", "x">>,
    <<"d", ".", "x", "l", "s">>,
    <<"d", ".", "x", "l", "s", "m">>,
    <<"d", ".", "x", "l", "s", "b">>,
    <<"d", ".", "o", "d", "s">>,
    <<"d", ".", "j", "s", "o", "n">>,
    <<".", "x", "m", "l">>,
    <<"d", ".", "t", "x", "t">>,
    <<"c", "s", "v">>,
    <<"d", ".", "c", "s", "v", ".", "b", "a", "k">>,
    <<"d", ".">>,
    <<"d", "c", "s", "v">> }

DfRowPool ==
  { [text |-> <<"g">>, rating |-> RatingNum(3)],
    [text |-> <<" ">>, rating |-> RatingNum(7)],
    [text |-> NaN,     rating |-> RatingNum(4)],
    [text |-> <<"g">>, rating |-> RatingStr],
    [text |-> <<"h">>, rating |-> RatingNum(-2)] }

\* tables a reader may return: with or without the text and rating columns
DfPool ==
  {[has_columns |-> FALSE, rows |-> <<>>]}
    \cup {[has_columns |-> TRUE, rows |-> r] :
            r \in UNION {[1..n -> DfRowPool] : n \in 0..MaxDfRows}}

\* what the operator may type at test.py's prompts
TestModeEntries     == { <<" ", "Q">>, <<"i">>, <<"f">>, <<"x">> }
TestLocationEntries == { <<"Q">>, <<" ", "g">> }
TestReviewEntries   == { <<"g", " ">>, <<>> }
StrQ == <<"q">>
StrI == <<"i">>
StrF == <<"f">>
-----------------------------------------------------------------------------
(* Scoring tool: label canonicalizer and aggregator (spec.md 4.1, 4.2) *)

LblValid   == <<"V", "a", "l", "i", "d">>
LblFlagged == <<"F", "l", "a", "g", "g", "e", "d">>
LblNone    == <<"N", "o", "n", "e">>
LblNoAdvertisement == <<"N", "o", " ", "A", "d", "v", "e", "r", "t", "i", "s", "e", "m", "e", "n", "t">>
LblNoIrrelevantContent ==
  <<"N", "o", " ", "I", "r", "r", "e", "l", "e", "v", "a", "n", "t", " ", "C", "o", "n", "t", "e", "n", "t">>
LblNoRantWithoutVisit ==
  <<"N", "o", " ", "R", "a", "n", "t", " ", "W", "i", "t", "h", "o", "u", "t", " ", "V", "i", "s", "i", "t">>

\* runs of whitespace inside a string become one space
RECURSIVE collapse_spaces(_)
collapse_spaces(s) ==
  IF s = <<>> THEN <<>>
  ELSE IF Head(s) \in Whitespace
    THEN IF Len(s) > 1 /\ s[2] \in Whitespace THEN collapse_spaces(Tail(s))
         ELSE <<" ">> \o collapse_spaces(Tail(s))
  ELSE <<Head(s)>> \o collapse_spaces(Tail(s))

\* spec.md 4.1: trim, lowercase, collapse internal whitespace
normalize_label(text) == collapse_spaces(str_lower(str_strip(text)))

str_startswith(s, t) == Len(s) >= Len(t) /\ SubSeq(s, 1, Len(t)) = t

\* spec.md 4.1: the fixed decision table
decision_table ==
  { <<<<"v", "a", "l", "i", "d">>, LblValid>>,
    <<<<"f", "l", "a", "g", "g", "e", "d">>, LblFlagged>> }

\* spec.md 4.1: the canonical violation names
canonical_violations ==
  {LblNoAdvertisement, LblNoIrrelevantContent, LblNoRantWithoutVisit, LblNone}

\* spec.md 3, 4.1: the alias table
violation_aliases ==
  { <<<<"a", "d", "s">>, LblNoAdvertisement>>,
    <<<<"p", "r", "o", "m", "o">>, LblNoAdvertisement>>,
    <<<<"o", "f", "f", "-", "t", "o", "p", "i", "c">>, LblNoIrrelevantContent>>,
    <<<<"h", "e", "a", "r", "s", "a", "y">>, LblNoRantWithoutVisit>> }

\* the value a table gives a key; the table holds the key at most once
table_get(table, key) == (CHOOSE e \in table : e[1] = key)[2]
table_has(table, key) == \E e \in table : e[1] = key

\* spec.md 4.1: canonicalize_decision
canonicalize_decision(text) ==
  LET n == normalize_label(text)
  IN  IF str_startswith(n, <<"v", "a", "l", "i", "d">>) THEN LblValid
      ELSE IF str_startswith(n, <<"f", "l", "a", "g">>) THEN LblFlagged
      ELSE IF table_has(decision_table, n) THEN table_get(decision_table, n)
      ELSE str_strip(text)

\* spec.md 4.1: canonicalize_violation
canonicalize_violation(text) ==
  LET n == normalize_label(text)
      has(t) == str_contains(n, t)
  IN  IF \E c \in canonical_violations : normalize_label(c) = n
        THEN CHOOSE c \in canonical_violations : normalize_label(c) = n
      ELSE IF table_has(violation_aliases, n) THEN table_get(violation_aliases, n)
      ELSE IF has(<<"a", "d", "v", "e", "r", "t">>) \/ has(<<"p", "r", "o", "m", "o">>)
        THEN LblNoAdvertisement
      ELSE IF has(<<"i", "r", "r", "e", "l", "e", "v">>)
              \/ has(<<"o", "f", "f", "t", "o", "p", "i", "c">>)
        THEN LblNoIrrelevantContent
      ELSE IF has(<<"v", "i", "s", "i", "t">>) \/ has(<<"h", "e", "a", "r", "s", "a", "y">>)
              \/ has(<<"s", "p", "e", "c", "u", "l", "a", "t">>) \/ has(<<"r", "a", "n", "t">>)
        THEN LblNoRantWithoutVisit
      ELSE IF n = <<>> THEN LblNone
      ELSE str_strip(text)

\* spec.md 4.1, 4.2: the caller forces "None" beside a Valid decision
effective_violation(dec, vio) == IF dec = LblValid THEN LblNone ELSE vio

\* the aggregator's counters and mismatch list before the first row
ScoreStart == [decision_match |-> 0, violation_match |-> 0, mismatches |-> <<>>]

\* score_row recording a mismatch on a decision disagreement as well
score_row_decision_mismatch(counts, r) ==
  LET pd == canonicalize_decision(r.pred_decision)
      gd == canonicalize_decision(r.gt_decision)
      pv == effective_violation(pd, canonicalize_violation(r.pred_violation))
      gv == effective_violation(gd, canonicalize_violation(r.gt_violation))
      rec == [id |-> r.id, pred_decision |-> pd, gt_decision |-> gd,
              pred_violation |-> pv, gt_violation |-> gv, review |-> r.review]
      a1 == IF pd = gd THEN [counts EXCEPT !.decision_match = @ + 1]
            ELSE [counts EXCEPT !.mismatches = Append(@, rec)]
  IN  IF pv = gv
        THEN [a1 EXCEPT !.violation_match = @ + 1]
        ELSE [a1 EXCEPT !.mismatches = Append(@, rec)]

\* spec.md 4.2: what one row does to the counters and the mismatch list
score_row(counts, r) ==
  LET pd == canonicalize_decision(r.pred_decision)
      gd == canonicalize_decision(r.gt_decision)
      pv == effective_violation(pd, canonicalize_violation(r.pred_violation))
      gv == effective_violation(gd, canonicalize_violation(r.gt_violation))
      a1 == IF pd = gd THEN [counts EXCEPT !.decision_match = @ + 1] ELSE counts
  IN  IF pv = gv
        THEN [a1 EXCEPT !.violation_match = @ + 1]
        ELSE [a1 EXCEPT !.mismatches =
                Append(@, [id |-> r.id, pred_decision |-> pd, gt_decision |-> gd,
                           pred_violation |-> pv, gt_violation |-> gv,
                           review |-> r.review])]

-----------------------------------------------------------------------------
(* Prediction and ground-truth labels the scoring tool is run on *)

PredPool ==
  { [decision |-> LblFlagged, violation |-> <<"a", "d", "s">>],
    [decision |-> LblValid, violation |-> <<"s", "p", "e", "c", "u", "l", "a", "t", "i", "o", "n">>],
    [decision |-> <<"f", "l", "a", "g", " ", "i", "t">>, violation |-> <<"w", "e", "i", "r", "d">>],
    [decision |-> <<" ", "V", "A", "L", "I", "D", " ">>, violation |-> <<>>] }

GtPool ==
  { [decision |-> LblFlagged, violation |-> LblNoAdvertisement],
    [decision |-> LblValid, violation |-> <<>>],
    [decision |-> LblFlagged,
     violation |-> <<"N", "o", " ", " ", "R", "a", "n", "t", " ", "w", "i", "t", "h", "o", "u", "t", " ", "v", "i", "s", "i", "t">>] }

ScoreRowPool ==
  {[id |-> NoneVal, review |-> <<"g">>,
    pred_decision |-> p.decision, pred_violation |-> p.violation,
    gt_decision |-> g.decision, gt_violation |-> g.violation] :
     p \in PredPool, g \in GtPool}

NoReport == [written |-> FALSE, rows |-> <<>>]
-----------------------------------------------------------------------------
(* Specification SpecParse: _parse_model_output run line by line *)

\* the three tokens in the order the if/elif chain tests them
HasDecisionTok(ln)    == str_contains(str_lower(ln), TokDecision)
HasViolationTok(ln)   == str_contains(str_lower(ln), TokViolation)
HasExplanationTok(ln) == str_contains(str_lower(ln), TokExplanation)

ParserLocals ==
  [decision |-> decision, violation |-> violation,
   explanation |-> explanation, raised |-> FALSE]

\* the CSV driver's state while another program runs
CsvIdle ==
  /\ path_exists = FALSE
  /\ in_file = NoFile
  /\ loc_col = NoneVal
  /\ rev_col = NoneVal
  /\ prompted = FALSE
  /\ out_file = NoOutput
  /\ row_idx = 0
  /\ row = <<>>
  /\ calls = <<>>

NoError == [type |-> "none", msg |-> <<>>]

\* the interactive loops' state while another program runs
LoopIdle ==
  /\ turn = 0
  /\ mode = <<>>
  /\ quit_seen = FALSE
  /\ user_input = <<>>
  /\ file_name = <<>>
  /\ read_log = <<>>
  /\ error = NoError

NoStats == [total |-> 0, decision_accuracy |-> <<0, 1>>, violation_accuracy |-> <<0, 1>>]

\* the scoring tool's state while another program runs
ScoreIdle ==
  /\ score_rows = <<>>
  /\ score_idx = 0
  /\ acc = ScoreStart
  /\ stats = NoStats
  /\ report = NoReport

\* test.py:76-78  state on entry to the for loop
InitParse ==
  /\ output_text \in TextPool
  /\ lines = parse_lines(output_text)
  /\ ln_idx = 0
  /\ decision = <<>>
  /\ violation = <<>>
  /\ explanation = <<>>
  /\ pc = "scan"
  /\ CsvIdle
  /\ LoopIdle
  /\ ScoreIdle

\* test.py:79-86  the loop body on the next line
ParseScan ==
  /\ pc = "scan"
  /\ ln_idx < Len(lines)
  /\ LET st == scan_line(ParserLocals, lines[ln_idx + 1])
     IN  /\ decision' = st.decision
         /\ violation' = st.violation
         /\ explanation' = st.explanation
         /\ pc' = IF st.raised THEN "raised" ELSE "scan"
         /\ ln_idx' = ln_idx + 1
  /\ UNCHANGED <<output_text, lines, csv_vars, loop_vars, score_vars>>

\* test.py:88
ParseReturn ==
  /\ pc = "scan"
  /\ ln_idx = Len(lines)
  /\ pc' = "returned"
  /\ UNCHANGED <<parse_vars, csv_vars, loop_vars, score_vars>>

NextParse == ParseScan \/ ParseReturn

SpecParse == InitParse /\ [][NextParse]_vars

-----------------------------------------------------------------------------
(* Specification SpecCsv: process_csv(path), test.py:101-169 *)

\* state on entry to process_csv
InitCsv ==
  /\ pc = "check_path"
  /\ path_exists \in BOOLEAN
  /\ in_file \in (IF path_exists THEN FilePool ELSE {NoFile})
  /\ loc_col = NoneVal
  /\ rev_col = NoneVal
  /\ prompted = FALSE
  /\ out_file = NoOutput
  /\ row_idx = 0
  /\ row = <<>>
  /\ calls = <<>>
  /\ output_text = <<>>
  /\ lines = <<>>
  /\ ln_idx = 0
  /\ decision = <<>>
  /\ violation = <<>>
  /\ explanation = <<>>
  /\ LoopIdle
  /\ ScoreIdle

\* test.py:106-108
CheckPath ==
  /\ pc = "check_path"
  /\ pc' = IF path_exists THEN "read_headers" ELSE "exit_notfound"
  /\ UNCHANGED <<parse_vars, csv_vars, loop_vars, score_vars>>

\* test.py:110-115  the file has no header line
NoHeaders ==
  /\ pc = "read_headers"
  /\ in_file.headers = <<>>
  /\ pc' = "exit_noheaders"
  /\ UNCHANGED <<parse_vars, csv_vars, loop_vars, score_vars>>

\* test.py:117-119  both columns detected
ColumnsGuessed ==
  /\ pc = "read_headers"
  /\ in_file.headers # <<>>
  /\ LET g == guess_columns(in_file.headers)
     IN  /\ truthy(g.loc) /\ truthy(g.rev)
         /\ loc_col' = g.loc
         /\ rev_col' = g.rev
  /\ pc' = "prepare"
  /\ UNCHANGED <<parse_vars, path_exists, in_file, prompted, out_file, row_idx, row, calls, loop_vars, score_vars>>

\* test.py:119-127  a column is not detected: both names are asked for
ColumnsPrompted ==
  /\ pc = "read_headers"
  /\ in_file.headers # <<>>
  /\ LET g == guess_columns(in_file.headers)
     IN  ~truthy(g.loc) \/ ~truthy(g.rev)
  /\ \E typed_loc \in EntryPool, typed_rev \in EntryPool :
       /\ loc_col' = str_strip(typed_loc)
       /\ rev_col' = str_strip(typed_rev)
  /\ prompted' = TRUE
  /\ pc' = IF \/ loc_col' \notin SeqToSet(in_file.headers)
              \/ rev_col' \notin SeqToSet(in_file.headers)
             THEN "exit_badcols" ELSE "prepare"
  /\ UNCHANGED <<parse_vars, path_exists, in_file, out_file, row_idx, row, calls, loop_vars, score_vars>>

\* test.py:129-143  the output file is created and its header written
OpenOutput ==
  /\ pc = "prepare"
  /\ out_file' = [opened |-> TRUE, headers |-> out_headers_of(in_file.headers), rows |-> <<>>]
  /\ row_idx' = 0
  /\ pc' = "rows"
  /\ UNCHANGED <<parse_vars, path_exists, in_file, loc_col, rev_col, prompted, row, calls, loop_vars, score_vars>>

\* test.py:146-147
location_of(rowdict) == str_strip(or_empty(dict_get(rowdict, loc_col)))
review_of(rowdict)   == str_strip(or_empty(dict_get(rowdict, rev_col)))

\* test.py:144-157  the reader yields the next row; a row whose review is
\* blank is written with three empty result cells
NextRow ==
  /\ pc = "rows"
  /\ row_idx < Len(in_file.rows)
  /\ row_idx' = row_idx + 1
  /\ LET r == dict_reader_row(in_file.headers, in_file.rows[row_idx + 1])
     IN  IF review_of(r) = <<>>
           THEN LET filled == with_result(r, <<>>, <<>>, <<>>)
                    w == writerow(out_file.headers, filled)
                IN  /\ row' = filled
                    /\ IF w.raised
                         THEN /\ pc' = "crashed"
                              /\ out_file' = out_file
                         ELSE /\ pc' = "rows"
                              /\ out_file' = [out_file EXCEPT !.rows = Append(@, w.cells)]
           ELSE /\ row' = r
                /\ pc' = "invoke"
                /\ out_file' = out_file
  /\ UNCHANGED <<parse_vars, path_exists, in_file, loc_col, rev_col, prompted, calls, loop_vars, score_vars>>

\* chain_invoke retrying once: two invocations for one pair
chain_invoke_retry(log, location, review) ==
  LET call == [location |-> location, review |-> review,
               row_idx |-> row_idx, written |-> Len(out_file.rows)]
  IN  Append(Append(log, call), call)

\* test.py:95  chain.invoke(...): the service is invoked once; the log keeps
\* the pair sent, the row being processed and the rows written so far
chain_invoke(log, location, review) ==
  Append(log, [location |-> location, review |-> review,
               row_idx |-> row_idx, written |-> Len(out_file.rows)])

\* test.py:97-99  the service's answer goes through the parser
evaluate(text) == parse_model_output(text)

\* test.py:159-167  the row is evaluated and written
EvaluateRow ==
  /\ pc = "invoke"
  /\ \E text \in ResponsePool :
       LET res == evaluate(text)
           filled == with_result(row, res.decision, res.violation, res.explanation)
           w == writerow(out_file.headers, filled)
       IN  /\ calls' = chain_invoke(calls, location_of(row), review_of(row))
           /\ output_text' = text
           /\ IF res.raised
                THEN /\ pc' = "crashed"
                     /\ UNCHANGED <<decision, violation, explanation, row, out_file>>
                ELSE /\ decision' = res.decision
                     /\ violation' = res.violation
                     /\ explanation' = res.explanation
                     /\ row' = filled
                     /\ IF w.raised
                          THEN /\ pc' = "crashed"
                               /\ out_file' = out_file
                          ELSE /\ pc' = "rows"
                               /\ out_file' = [out_file EXCEPT !.rows = Append(@, w.cells)]
  /\ UNCHANGED <<lines, ln_idx, path_exists, in_file, loc_col, rev_col, prompted, row_idx, loop_vars, score_vars>>

\* test.py:144,169  the reader is exhausted; out_path is returned
CsvDone ==
  /\ pc = "rows"
  /\ row_idx = Len(in_file.rows)
  /\ pc' = "csv_done"
  /\ UNCHANGED <<parse_vars, csv_vars, loop_vars, score_vars>>

NextCsv ==
  \/ CheckPath
  \/ NoHeaders
  \/ ColumnsGuessed
  \/ ColumnsPrompted
  \/ OpenOutput
  \/ NextRow
  \/ EvaluateRow
  \/ CsvDone

SpecCsv == InitCsv /\ [][NextCsv]_vars
-----------------------------------------------------------------------------
(* test.py:174-199  the interactive loop around evaluate and process_csv *)

ParseIdle ==
  /\ output_text = <<>>
  /\ lines = <<>>
  /\ ln_idx = 0
  /\ decision = <<>>
  /\ violation = <<>>
  /\ explanation = <<>>

InitTest ==
  /\ pc = "t_mode"
  /\ ParseIdle
  /\ CsvIdle
  /\ LoopIdle
  /\ ScoreIdle

\* test.py:175-181,193,198-199  the mode prompt and its dispatch
TestModePrompt ==
  /\ pc = "t_mode"
  /\ turn < MaxTurns
  /\ turn' = turn + 1
  /\ calls' = <<>>
  /\ \E typed \in TestModeEntries : mode' = str_lower(str_strip(typed))
  /\ quit_seen' = (quit_seen \/ mode' = StrQ)
  /\ pc' = IF mode' = StrQ THEN "t_exit"
           ELSE IF mode' = StrI THEN "t_individual"
           ELSE IF mode' = StrF THEN "t_file"
           ELSE "t_mode"
  /\ UNCHANGED <<parse_vars, path_exists, in_file, loc_col, rev_col, prompted,
                 out_file, row_idx, row, user_input, file_name, read_log, error, score_vars>>

\* test.py:182-184  q at the location prompt leaves the loop
TestIndividualQuit ==
  /\ pc = "t_individual"
  /\ \E typed \in TestLocationEntries : str_lower(str_strip(typed)) = StrQ
  /\ pc' = "t_exit"
  /\ UNCHANGED <<parse_vars, csv_vars, loop_vars, score_vars>>

\* test.py:182-191  a location and a review are collected and evaluated
TestIndividualEvaluate ==
  /\ pc = "t_individual"
  /\ \E typed_loc \in TestLocationEntries, typed_rev \in TestReviewEntries,
        text \in ResponsePool :
       LET location_input == str_strip(typed_loc)
           review_input == str_strip(typed_rev)
           res == evaluate(text)
       IN  /\ str_lower(location_input) # StrQ
           /\ calls' = chain_invoke(calls, str_strip(location_input),
                                    str_strip(review_input))
           /\ output_text' = text
           /\ IF res.raised
                THEN /\ pc' = "t_crashed"
                     /\ UNCHANGED <<decision, violation, explanation>>
                ELSE /\ pc' = "t_mode"
                     /\ decision' = res.decision
                     /\ violation' = res.violation
                     /\ explanation' = res.explanation
  /\ UNCHANGED <<lines, ln_idx, path_exists, in_file, loc_col, rev_col, prompted,
                 out_file, row_idx, row, loop_vars, score_vars>>

\* test.py:194-196  a path is collected and process_csv is entered
TestFile ==
  /\ pc = "t_file"
  /\ path_exists' \in BOOLEAN
  /\ in_file' \in (IF path_exists' THEN FilePool ELSE {NoFile})
  /\ loc_col' = NoneVal
  /\ rev_col' = NoneVal
  /\ prompted' = FALSE
  /\ out_file' = NoOutput
  /\ row_idx' = 0
  /\ row' = <<>>
  /\ pc' = "check_path"
  /\ UNCHANGED <<parse_vars, calls, loop_vars, score_vars>>

\* test.py:196-197  process_csv returned to the loop
TestCsvReturn ==
  /\ pc = "csv_done"
  /\ turn > 0
  /\ pc' = "t_mode"
  /\ UNCHANGED <<parse_vars, csv_vars, loop_vars, score_vars>>

NextTest ==
  \/ TestModePrompt
  \/ TestIndividualQuit
  \/ TestIndividualEvaluate
  \/ TestFile
  \/ TestCsvReturn
  \/ NextCsv

-----------------------------------------------------------------------------
(* main.py:87-116  the interactive loop around read_file and the service *)

InitMain ==
  /\ pc = "m_mode"
  /\ ParseIdle
  /\ CsvIdle
  /\ LoopIdle
  /\ ScoreIdle

\* main.py:88-95,102  the mode prompt and its dispatch; quit only prints
MainModePrompt ==
  /\ pc = "m_mode"
  /\ turn < MaxTurns
  /\ turn' = turn + 1
  /\ calls' = <<>>
  /\ read_log' = <<>>
  /\ user_input' = <<>>
  /\ \E typed \in MainModeEntries : mode' = str_lower(str_strip(typed))
  /\ quit_seen' = (quit_seen \/ mode' = StrQuit)
  /\ pc' = IF mode' = StrIndividual THEN "m_individual"
           ELSE IF mode' = StrFile THEN "m_file"
           ELSE "m_invoke"
  /\ UNCHANGED <<parse_vars, path_exists, in_file, loc_col, rev_col, prompted,
                 out_file, row_idx, row, file_name, error, score_vars>>

\* main.py:96-100
MainIndividual ==
  /\ pc = "m_individual"
  /\ \E typed \in MainReviewEntries : user_input' = str_strip(typed)
  /\ pc' = IF str_lower(user_input') = StrQuit THEN "m_exit" ELSE "m_invoke"
  /\ UNCHANGED <<parse_vars, csv_vars, turn, mode, quit_seen, file_name, read_log, error, score_vars>>

\* main.py:103-106  quit at the file-name prompt leaves the loop
MainFileQuit ==
  /\ pc = "m_file"
  /\ \E typed \in MainNameEntries :
       /\ str_lower(str_strip(typed)) = StrQuit
       /\ file_name' = str_strip(typed)
  /\ pc' = "m_exit"
  /\ UNCHANGED <<parse_vars, csv_vars, turn, mode, quit_seen, user_input, read_log, error, score_vars>>

\* main.py:103,107-108  read_file rejects the name
MainFileRejected ==
  /\ pc = "m_file"
  /\ \E typed \in MainNameEntries :
       /\ str_lower(str_strip(typed)) # StrQuit
       /\ file_name' = str_strip(typed)
  /\ read_file(file_name').raised
  /\ error' = [type |-> "ValueError", msg |-> read_file(file_name').msg]
  /\ pc' = "m_crashed"
  /\ UNCHANGED <<parse_vars, csv_vars, turn, mode, quit_seen, user_input, read_log, score_vars>>

\* main.py:103,107-111  read_file calls a reader; the reader fails on a
\* missing file, clean_dataframe fails on a table without its columns,
\* otherwise the first cleaned texts become the input
MainFileRead ==
  /\ pc = "m_file"
  /\ \E typed \in MainNameEntries :
       /\ str_lower(str_strip(typed)) # StrQuit
       /\ file_name' = str_strip(typed)
  /\ ~read_file(file_name').raised
  /\ \E found \in BOOLEAN, df \in DfPool :
       /\ read_log' = Append(read_log, [reader |-> read_file(file_name').reader,
                                        name |-> file_name',
                                        found |-> found])
       /\ IF ~found
            THEN /\ error' = [type |-> "FileNotFoundError", msg |-> file_name']
                 /\ pc' = "m_crashed"
                 /\ user_input' = user_input
          ELSE IF ~df.has_columns
            THEN /\ error' = [type |-> "KeyError", msg |-> <<>>]
                 /\ pc' = "m_crashed"
                 /\ user_input' = user_input
          ELSE /\ error' = error
               /\ pc' = "m_invoke"
               /\ user_input' = IF Len(clean_dataframe(df.rows)) > 0
                                  THEN head_text(clean_dataframe(df.rows))
                                  ELSE user_input
  /\ UNCHANGED <<parse_vars, csv_vars, turn, mode, quit_seen, score_vars>>

\* main.py:113-116  the chain is invoked with the input of this iteration;
\* it returns and the loop goes on, or it raises and the program dies
MainInvoke ==
  /\ pc = "m_invoke"
  /\ calls' = Append(calls, [reference |-> <<>>, review |-> user_input])
  /\ \E returned \in BOOLEAN :
       IF returned
         THEN pc' = "m_mode" /\ error' = error
         ELSE pc' = "m_crashed" /\ error' = [type |-> "InvokeError", msg |-> <<>>]
  /\ UNCHANGED <<parse_vars, path_exists, in_file, loc_col, rev_col, prompted,
                 out_file, row_idx, row, turn, mode, quit_seen, user_input,
                 file_name, read_log, score_vars>>

NextMain ==
  \/ MainModePrompt
  \/ MainIndividual
  \/ MainFileQuit
  \/ MainFileRejected
  \/ MainFileRead
  \/ MainInvoke

SpecMain == InitMain /\ [][NextMain]_vars

\* both interactive drivers
SpecDrivers == (InitTest \/ InitMain) /\ [][NextTest \/ NextMain]_vars
-----------------------------------------------------------------------------
(* Specification SpecScore: the scoring aggregator, spec.md 4.2 *)

InitScore ==
  /\ pc = "s_rows"
  /\ score_rows \in UNION {[1..n -> ScoreRowPool] : n \in 0..MaxScoreRows}
  /\ score_idx = 0
  /\ acc = ScoreStart
  /\ stats = NoStats
  /\ report = NoReport
  /\ ParseIdle
  /\ CsvIdle
  /\ LoopIdle

\* spec.md 4.2: the next row is canonicalized and compared
ScoreRow ==
  /\ pc = "s_rows"
  /\ score_idx < Len(score_rows)
  /\ score_idx' = score_idx + 1
  /\ acc' = score_row(acc, score_rows[score_idx + 1])
  /\ UNCHANGED <<pc, score_rows, stats, report, parse_vars, csv_vars, loop_vars>>

\* spec.md 4.2: the accuracies; an empty input is an unguarded division by zero
ScoreStats ==
  /\ pc = "s_rows"
  /\ score_idx = Len(score_rows)
  /\ IF Len(score_rows) = 0
       THEN /\ pc' = "s_crashed"
            /\ stats' = stats
       ELSE /\ pc' = "s_report"
            /\ stats' = [total |-> Len(score_rows),
                         decision_accuracy |-> <<acc.decision_match, Len(score_rows)>>,
                         violation_accuracy |-> <<acc.violation_match, Len(score_rows)>>]
  /\ UNCHANGED <<score_rows, score_idx, acc, report, parse_vars, csv_vars, loop_vars>>

\* spec.md 4.2: the mismatch report replaces the file of the fixed name; with
\* no mismatch the header cannot be derived and the tool fails
ScoreReport ==
  /\ pc = "s_report"
  /\ IF acc.mismatches = <<>>
       THEN /\ pc' = "s_crashed"
            /\ report' = report
       ELSE /\ pc' = "s_done"
            /\ report' = [written |-> TRUE, rows |-> acc.mismatches]
  /\ UNCHANGED <<score_rows, score_idx, acc, stats, parse_vars, csv_vars, loop_vars>>

NextScore == ScoreRow \/ ScoreStats \/ ScoreReport

SpecScore == InitScore /\ [][NextScore]_vars
-----------------------------------------------------------------------------
(* Claims about _parse_model_output, checked under SpecParse *)

NoLineHas(Tok(_)) == \A k \in 1..Len(lines) : ~Tok(lines[k])

\* C1: _parse_model_output never raises, whatever the model output text is,
\* and it returns a triple in which every field whose token occurs in no
\* line is the empty string.
C1_NeverRaises ==
  /\ pc # "raised"
  /\ pc = "returned" =>
       /\ NoLineHas(HasDecisionTok) => decision = <<>>
       /\ NoLineHas(HasViolationTok) => violation = <<>>
       /\ NoLineHas(HasExplanationTok) => explanation = <<>>

\* the text after the first colon of line k, trimmed
LineValue(k) == FieldValue(lines[k]).value

\* line k matched "decision:" and gave a non-empty value
DecCand(k) == HasDecisionTok(lines[k]) /\ LineValue(k) # <<>>
\* line k was consumed by the decision token
DecTaken(k) ==
  HasDecisionTok(lines[k]) /\ ~\E j \in 1..(k - 1) : DecCand(j)
VioCand(k) ==
  HasViolationTok(lines[k]) /\ ~DecTaken(k) /\ LineValue(k) # <<>>
\* line k was consumed by the primary-violation token
VioTaken(k) ==
  /\ HasViolationTok(lines[k])
  /\ ~DecTaken(k)
  /\ ~\E j \in 1..(k - 1) : VioCand(j)
ExpCand(k) ==
  /\ HasExplanationTok(lines[k])
  /\ ~DecTaken(k)
  /\ ~VioTaken(k)
  /\ LineValue(k) # <<>>

\* the value of the first line satisfying Cand, the empty string if none does
FirstValue(Cand(_)) ==
  LET hits == {k \in 1..Len(lines) : Cand(k)}
  IN  IF hits = {} THEN <<>>
      ELSE LineValue(CHOOSE k \in hits : \A m \in hits : k <= m)

FieldsChanged ==
  (IF decision' # decision THEN 1 ELSE 0)
  + (IF violation' # violation THEN 1 ELSE 0)
  + (IF explanation' # explanation THEN 1 ELSE 0)

\* C9: each scanned line assigns at most one of the three fields, a field
\* holding a non-empty value is never changed by a later line, and each
\* returned field is the trimmed text after the first colon of the first line
\* that matched its token, was not consumed by a higher-priority token and
\* gave a non-empty value (the empty string when there is no such line).
C9_ScanPriority ==
  /\ [][/\ FieldsChanged <= 1
        /\ decision # <<>> => decision' = decision
        /\ violation # <<>> => violation' = violation
        /\ explanation # <<>> => explanation' = explanation]_vars
  /\ [](pc = "returned" =>
          /\ decision = FirstValue(DecCand)
          /\ violation = FirstValue(VioCand)
          /\ explanation = FirstValue(ExpCand))

\* a returned parse in which a line holding "decision:" went to the
\* primary-violation field because the decision was already set
C9_Witness ==
  /\ pc = "returned"
  /\ \E k \in 1..Len(lines) :
       HasDecisionTok(lines[k]) /\ ~DecTaken(k) /\ VioCand(k)
  /\ decision # <<>>
  /\ violation # <<>>

-----------------------------------------------------------------------------
(* Claims about process_csv and evaluate, checked under SpecCsv *)

StrValid == <<"V", "a", "l", "i", "d">>
StrNone  == <<"N", "o", "n", "e">>

NumHeaders == Len(in_file.headers)

\* C2: every classification result the driver produces (the tuple evaluate
\* returns and every row process_csv writes) has primary violation "None"
\* whenever its decision is "Valid".
C2_ValidMeansNone ==
  /\ decision = StrValid => violation = StrNone
  /\ \A k \in 1..Len(out_file.rows) :
       out_file.rows[k][NumHeaders + 1] = StrValid
         => out_file.rows[k][NumHeaders + 2] = StrNone

ColumnsKnown ==
  /\ loc_col \in SeqToSet(in_file.headers)
  /\ rev_col \in SeqToSet(in_file.headers)

\* C4: when the two columns are not both detected from the headers the
\* operator is prompted; when an entered name is no header the run ends in
\* the column error; so whenever the output file is open or a row is being
\* evaluated, both chosen columns are headers of the CSV.
C4_ColumnsResolved ==
  LET g == guess_columns(in_file.headers)
      detected == truthy(g.loc) /\ truthy(g.rev)
      past == pc \in {"exit_badcols", "prepare", "rows", "invoke", "crashed", "csv_done"}
  IN  /\ past => (prompted <=> ~detected)
      /\ past => (pc = "exit_badcols" <=> (prompted /\ ~ColumnsKnown))
      /\ (out_file.opened \/ pc = "invoke" \/ calls # <<>>) => ColumnsKnown

\* a row is being evaluated with columns the operator typed in
C4_Witness ==
  /\ pc = "invoke"
  /\ prompted
  /\ out_file.opened
  /\ loc_col # rev_col

\* the input cell of data row k under header j, empty when the row is short
InCell(k, j) ==
  IF j <= Len(in_file.rows[k]) THEN in_file.rows[k][j] ELSE <<>>

\* the trimmed review of data row k as the reader and rev_col give it
ReviewOfRow(k) ==
  LET fields == in_file.rows[k]
      hits == {j \in 1..NumHeaders : in_file.headers[j] = rev_col}
      j == CHOOSE h \in hits : \A m \in hits : h >= m
  IN  IF j <= Len(fields) THEN str_strip(fields[j]) ELSE <<>>

\* C5: for every accepted input the output holds one row per input row in
\* the same order, every original column keeps the input value, and three
\* columns Decision, Primary Violation, Explanation are added (all empty when
\* the trimmed review is blank), also when the input already has a column
\* with one of those three names.
C5_RowsPreserved ==
  pc = "csv_done" =>
    /\ out_file.headers = in_file.headers \o <<ColDecision, ColViolation, ColExplanation>>
    /\ Len(out_file.rows) = Len(in_file.rows)
    /\ \A k \in 1..Len(out_file.rows) :
         /\ Len(out_file.rows[k]) = NumHeaders + 3
         /\ \A j \in 1..NumHeaders : out_file.rows[k][j] = InCell(k, j)
         /\ ReviewOfRow(k) = <<>> =>
              \A j \in (NumHeaders + 1)..(NumHeaders + 3) : out_file.rows[k][j] = <<>>

\* rows whose loop iteration has reached its end or its service call
RowsHandled == IF pc = "invoke" THEN row_idx - 1 ELSE row_idx

\* C6: the service is invoked exactly once per row whose trimmed review is
\* non-empty and never for a blank one, in input row order, each invocation
\* made only after every earlier row was written; a run that returns has
\* made as many invocations as the input has rows with a non-empty review.
C6_OneCallPerReview ==
  LET nonblank == {k \in 1..RowsHandled : ReviewOfRow(k) # <<>>}
  IN  /\ Len(calls) = Cardinality(nonblank)
      /\ \A c \in 1..Len(calls) :
           /\ calls[c].row_idx \in nonblank
           /\ calls[c].review = ReviewOfRow(calls[c].row_idx)
           /\ calls[c].written = calls[c].row_idx - 1
           /\ \A b \in 1..(c - 1) : calls[b].row_idx < calls[c].row_idx
      /\ pc = "csv_done" => RowsHandled = Len(in_file.rows)

\* a finished run over a blank and a non-blank row
C6_Witness ==
  /\ pc = "csv_done"
  /\ Len(in_file.rows) >= 2
  /\ Len(calls) >= 1
  /\ \E k \in 1..Len(in_file.rows) : ReviewOfRow(k) = <<>>

\* the batch half of C3: a missing input file ends process_csv before a row
\* is read, the output is created or the service is invoked
C3_BatchStops ==
  (pc \in {"read_headers", "exit_notfound", "exit_noheaders", "exit_badcols",
           "prepare", "rows", "invoke", "crashed", "csv_done"} /\ ~path_exists)
    => /\ pc = "exit_notfound"
       /\ row_idx = 0
       /\ ~out_file.opened
       /\ calls = <<>>
-----------------------------------------------------------------------------
(* Claims about the interactive drivers, checked under SpecMain and SpecDrivers *)

\* main.py file mode: a reader was called on a file that does not exist
MissingFileRead == \E k \in 1..Len(read_log) : ~read_log[k].found

\* C3: a missing input file is reported and then batch mode (process_csv)
\* ends before a row is read, the output file is created or the service is
\* invoked, while the interactive driver's file mode goes on to the next
\* prompt instead of the process failing.
C3_MissingFileHandled ==
  /\ C3_BatchStops
  /\ MissingFileRead => pc \in {"m_mode", "m_individual", "m_file", "m_invoke", "m_exit"}

\* the text after the last dot of a name, the whole name when it has no dot
ExtensionOf(name) ==
  LET dots == {k \in 1..Len(name) : name[k] = "."}
  IN  IF dots = {} THEN name
      ELSE SubSeq(name, (CHOOSE k \in dots : \A m \in dots : k >= m) + 1, Len(name))

ReaderFor(ext) ==
  CASE ext = ExtCsv -> "read_csv"
    [] ext \in {ExtXls, ExtXlsx, ExtXlsm, ExtXlsb, ExtOds} -> "read_excel"
    [] ext = ExtJson -> "read_json"
    [] ext = ExtXml -> "read_xml"
    [] OTHER -> "none"

\* file mode has handed the entered name to read_file
ReadFileCalled ==
  /\ mode = StrFile
  /\ pc \in {"m_invoke", "m_crashed", "m_mode"}
  /\ str_lower(file_name) # StrQuit

\* C7: read_file rejects a name whose extension, compared without regard to
\* case, is not one of csv, xls, xlsx, xlsm, xlsb, ods, json, xml with an
\* error naming that extension and reads nothing; a name with a supported
\* extension goes to exactly one reader, the one of its format.
C7_ReadFileDispatch ==
  ReadFileCalled =>
    LET ext == str_lower(ExtensionOf(file_name))
    IN  IF ReaderFor(ext) = "none"
          THEN /\ pc = "m_crashed"
               /\ error = [type |-> "ValueError", msg |-> MsgUnsupported \o ext]
               /\ read_log = <<>>
          ELSE /\ Len(read_log) = 1
               /\ read_log[1].reader = ReaderFor(ext)
               /\ read_log[1].name = file_name
               /\ error.type # "ValueError"

\* an upper-case supported extension after two dots reached its reader
C7_Witness ==
  /\ ReadFileCalled
  /\ file_name = <<"a", ".", "b", ".", "X", "l", "s", "x">>
  /\ Len(read_log) = 1
  /\ read_log[1].reader = "read_excel"
  /\ pc = "m_invoke"

\* C10: once quit is chosen at the mode prompt the loop is over (no further
\* prompt, no invocation of the service), and an iteration invokes the
\* service only if it collected a review or a file.
C10_QuitEndsLoop ==
  /\ quit_seen => pc \in {"t_exit", "m_exit"}
  /\ calls # <<>> => mode \in {StrI, StrF, StrIndividual, StrFile}

\* the test.py half of C10
C10_TestLoop ==
  pc \notin {"m_mode", "m_individual", "m_file", "m_invoke", "m_exit", "m_crashed"}
    => C10_QuitEndsLoop
-----------------------------------------------------------------------------
(* Claims about the scoring aggregator, checked under SpecScore *)

\* C8: after any number of rows the mismatch list is as long as the rows
\* processed minus the violation-match counter: each row either raises the
\* counter or appends one mismatch record, never both and never neither.
C8_MismatchCount ==
  /\ Len(acc.mismatches) = score_idx - acc.violation_match
  /\ acc.violation_match \in 0..score_idx

\* rows of both kinds have been processed
C8_Witness ==
  /\ score_idx >= 2
  /\ acc.violation_match >= 1
  /\ Len(acc.mismatches) >= 1
====
